---- MODULE Spec2Model ----
(***************************************************************************)
(* Model of src/main/main.py: class Graph (a directed, weighted graph kept *)
(* as a vertex set plus a defaultdict of outgoing edge lists), its matrix  *)
(* builder and its Dijkstra search.                                        *)
(*                                                                         *)
(* Vertex labels are strings (input().split()); the model uses the first   *)
(* NumLabels of "A", "B", ..., ordered as Python orders them.  The         *)
(* iteration order of the Python set of labels depends on string hashing   *)
(* and is therefore a nondeterministic choice here; the iteration order of *)
(* the dict adjacency_list is insertion order and is modelled exactly.     *)
(* Graph.num_vertices is stored by __init__ and never read; it is left out.*)
(* Weights are non-negative, as the search assumes; add_edge itself does   *)
(* not check the sign or the size, so a weight may equal sys.maxsize.      *)
(* A raised KeyError is the outcome "KeyError".                            *)
(***************************************************************************)
EXTENDS Integers, Sequences, FiniteSets, TLC

\* ---------------------------------------------------------------- bounds
NumLabels == 3   \* distinct vertex labels the driver may name
MaxEdges  == 3   \* stored edges at any time (add_edge is not offered beyond)
MaxWeight == 1   \* the small weights are the integers 0..MaxWeight

LabelNames == <<"A", "B", "C", "D", "E", "F">>
Labels  == {LabelNames[i] : i \in 1..NumLabels}
\* the place of a label in Python's order of strings
Ord(v)  == CHOOSE i \in 1..Len(LabelNames) : LabelNames[i] = v

\* Weights, distances and matrix cells are Python integers, which have no
\* width.  The integer k * sys.maxsize + n, with sys.maxsize =
\* 9223372036854775807 = 2^63 - 1 and |n| < 2^31, is written Num(k, n):
\* that is exact for sys.maxsize itself, for every weight the model checker
\* can hold, and for their sums.
Num(k, n) == [k |-> k, n |-> n]

\* sys.maxsize, the "infinity" of the program
maxsize == Num(1, 0)

\* the integer 0
Zero == Num(0, 0)

\* a + b
Plus(a, b) == Num(a.k + b.k, a.n + b.n)

\* a < b and a <= b: by the multiple of sys.maxsize first, as |n| < sys.maxsize
Less(a, b) == a.k < b.k \/ (a.k = b.k /\ a.n < b.n)
Leq(a, b)  == a.k < b.k \/ (a.k = b.k /\ a.n <= b.n)

\* the weights the driver may enter: small ones, and sys.maxsize itself,
\* which add_edge accepts like any other integer
Weights == {Num(0, w) : w \in 0..MaxWeight} \cup {maxsize}

None == "None"

\* --------------------------------------------------------------- state
VARIABLES
  vertices,        \* Graph.vertices: set of labels
  adjacency_list,  \* Graph.adjacency_list: insertion-ordered dict, as a
                   \* sequence of [key, list], list a sequence of <<dest, weight>>
  pc,              \* "idle" | "loop" | "walk" | "done" | "matrix"
  start, end,      \* arguments of the running dijkstra call
  unvisited, visited, processed, predecessors,   \* dijkstra's locals
  current_vertex,  \* the vertex selected by the last loop iteration
  current, path,   \* locals of the path reconstruction
  result,          \* the value returned by the last call
  outcome,         \* "none" | "returned" | "KeyError"
  removed          \* the vertex the last call removed, None if it removed none

vars == <<vertices, adjacency_list, pc, start, end, unvisited, visited,
          processed, predecessors, current_vertex, current, path, result,
          outcome, removed>>

graph  == <<vertices, adjacency_list>>
locals == <<start, end, unvisited, visited, processed, predecessors,
            current_vertex, current, path>>

\* ------------------------------------------------- dict / list helpers
EmptyDict == << >>

\* the keys of an insertion-ordered dict
DictKeys(d) == {d[i].key : i \in DOMAIN d}

\* d[k] for a key that is present
DictGet(d, k) == d[CHOOSE i \in DOMAIN d : d[i].key = k].list

\* d[k] = v: in place for a present key, at the end for a new one
DictSet(d, k, v) ==
  IF k \in DictKeys(d)
    THEN [i \in DOMAIN d |-> IF d[i].key = k THEN [key |-> k, list |-> v] ELSE d[i]]
    ELSE Append(d, [key |-> k, list |-> v])

\* d.pop(k, None)
DictPop(d, k) == SelectSeq(d, LAMBDA e : e.key # k)

\* mutant: the lookup stores a fresh [] under k whether or not k is present
DefaultGetItem_reset(d, k) == DictSet(d, k, << >>)

\* defaultdict(list).__getitem__(k): a missing key is inserted with []
DefaultGetItem(d, k) ==
  IF k \in DictKeys(d) THEN d ELSE Append(d, [key |-> k, list |-> << >>])

\* [(dest, weight) for dest, weight in l if dest != vertex]
FilterDest(l, vertex) == SelectSeq(l, LAMBDA e : e[1] # vertex)

\* a Python dict without order (dijkstra's locals), as a function
MapSet(f, k, v) == [x \in (DOMAIN f) \cup {k} |-> IF x = k THEN v ELSE f[x]]
MapPop(f, k)    == [x \in (DOMAIN f) \ {k} |-> f[x]]

RECURSIVE EdgeCount(_)
EdgeCount(d) == IF d = << >> THEN 0 ELSE Len(Head(d).list) + EdgeCount(Tail(d))

\* --------------------------------------------------------------- Graph
Init ==
  /\ vertices = {}
  /\ adjacency_list = EmptyDict
  /\ pc = "idle"
  /\ start = None /\ end = None
  /\ unvisited = << >> /\ visited = << >> /\ processed = {} /\ predecessors = << >>
  /\ current_vertex = None /\ current = None /\ path = << >>
  /\ result = None
  /\ outcome = "none"
  /\ removed = None

add_edge(d, src, dest, weight) ==
  LET d1 == DefaultGetItem(d, src)
  IN  DictSet(d1, src, Append(DictGet(d1, src), <<dest, weight>>))

AddEdge(src, dest, weight) ==
  /\ pc = "idle"
  /\ adjacency_list' = add_edge(adjacency_list, src, dest, weight)
  /\ vertices' = vertices \cup {src, dest}
  /\ removed' = None
  /\ UNCHANGED <<pc, locals, result, outcome>>

\* mutant: the edges into the removed vertex are left in the other lists
remove_vertex_keep_incoming(d, vertex) == DictPop(d, vertex)

\* mutant: the removed vertex keeps its own outgoing list
remove_vertex_keep_list(d, vertex) ==
  [i \in DOMAIN d |-> [key |-> d[i].key, list |-> FilterDest(d[i].list, vertex)]]

\* the adjacency_list after remove_vertex(vertex), vertex present
remove_vertex(d, vertex) ==
  LET d1 == DictPop(d, vertex)
  IN  [i \in DOMAIN d1 |-> [key |-> d1[i].key, list |-> FilterDest(d1[i].list, vertex)]]

RemoveVertex(vertex) ==
  /\ pc = "idle"
  /\ IF vertex \in vertices
       THEN /\ vertices' = vertices \ {vertex}
            /\ adjacency_list' = remove_vertex(adjacency_list, vertex)
       ELSE UNCHANGED graph
  /\ removed' = IF vertex \in vertices THEN vertex ELSE None
  /\ UNCHANGED <<pc, locals, result, outcome>>

AddVertex(vertex) ==
  /\ pc = "idle"
  /\ vertices' = IF vertex \notin vertices THEN vertices \cup {vertex} ELSE vertices
  /\ removed' = None
  /\ UNCHANGED <<adjacency_list, pc, locals, result, outcome>>

\* ------------------------------------------- create_adjacency_matrix
\* sorted(S), ascending
RECURSIVE sorted(_)
sorted(S) ==
  IF S = {} THEN << >>
  ELSE LET m == CHOOSE x \in S : \A y \in S : Ord(x) <= Ord(y)
       IN  <<m>> \o sorted(S \ {m})

\* {vertex: idx for idx, vertex in enumerate(sorted(self.vertices))}, 0-based
VertexToIndex(V) ==
  LET s == sorted(V)
  IN  [v \in V |-> (CHOOSE i \in 1..Len(s) : s[i] = v) - 1]

\* [[sys.maxsize] * n for _ in range(n)], rows and columns indexed from 0
EmptyMatrix(n) == [i \in 0..(n - 1) |-> [j \in 0..(n - 1) |-> maxsize]]

\* matrix[i][j] = w
MatrixSet(m, i, j, w) == [m EXCEPT ![i] = [m[i] EXCEPT ![j] = w]]

\* every stored edge <<src, dest, weight>> in the order the two nested
\* loops over adjacency_list visit them
RECURSIVE EdgesInOrder(_)
EdgesInOrder(d) ==
  IF d = << >> THEN << >>
  ELSE LET h == Head(d)
       IN  [i \in 1..Len(h.list) |-> <<h.key, h.list[i][1], h.list[i][2]>>]
           \o EdgesInOrder(Tail(d))

\* mutant: a cell keeps the cheaper of its weight and the edge's
RECURSIVE FillMatrix_min(_, _, _)
FillMatrix_min(es, idx, m) ==
  IF es = << >> THEN [matrix |-> m, err |-> FALSE]
  ELSE LET e == Head(es)
       IN  IF e[1] \notin DOMAIN idx \/ e[2] \notin DOMAIN idx
             THEN [matrix |-> m, err |-> TRUE]
             ELSE LET w == IF Less(m[idx[e[1]]][idx[e[2]]], e[3])
                             THEN m[idx[e[1]]][idx[e[2]]] ELSE e[3]
                  IN  FillMatrix_min(Tail(es), idx,
                        MatrixSet(MatrixSet(m, idx[e[1]], idx[e[2]], w),
                                  idx[e[2]], idx[e[1]], w))

\* one pass of the loop body for every edge; a failed vertex_to_index
\* lookup stops the call with a KeyError
RECURSIVE FillMatrix(_, _, _)
FillMatrix(es, idx, m) ==
  IF es = << >> THEN [matrix |-> m, err |-> FALSE]
  ELSE LET e == Head(es)
       IN  IF e[1] \notin DOMAIN idx \/ e[2] \notin DOMAIN idx
             THEN [matrix |-> m, err |-> TRUE]
             ELSE FillMatrix(Tail(es), idx,
                    MatrixSet(MatrixSet(m, idx[e[1]], idx[e[2]], e[3]),
                              idx[e[2]], idx[e[1]], e[3]))

create_adjacency_matrix(V, d) ==
  LET idx == VertexToIndex(V)
      r   == FillMatrix(EdgesInOrder(d), idx, EmptyMatrix(Cardinality(V)))
  IN  [matrix |-> r.matrix, vertex_to_index |-> idx, err |-> r.err]

CreateAdjacencyMatrix ==
  /\ pc = "idle"
  /\ LET r == create_adjacency_matrix(vertices, adjacency_list)
     IN  IF r.err
           THEN /\ outcome' = "KeyError"
                /\ result' = None
           ELSE /\ outcome' = "returned"
                /\ result' = <<r.matrix, r.vertex_to_index>>
  /\ pc' = "matrix"
  /\ removed' = None
  /\ UNCHANGED <<graph, locals>>

\* ------------------------------------------------------------ dijkstra
\* lines 69-73: the locals before the first iteration
Dijkstra(s, e) ==
  /\ pc = "idle"
  /\ start' = s /\ end' = e
  /\ unvisited' = MapSet([v \in vertices |-> maxsize], s, Zero)
  /\ visited' = << >>
  /\ processed' = {}
  /\ predecessors' = << >>
  /\ pc' = "loop"
  /\ outcome' = "none"
  /\ result' = None
  /\ removed' = None
  /\ UNCHANGED <<graph, current_vertex, current, path>>

\* the candidates of min(unvisited, key=unvisited.get): min returns the
\* first minimal key in the dict's order, which is the set's hash order
MinKeys(u) == {v \in DOMAIN u : \A w \in DOMAIN u : Leq(u[v], u[w])}

\* mutant: the edges into cv are followed backwards as well
Neighbors_undirected(d, cv) ==
  LET es == SelectSeq(EdgesInOrder(d), LAMBDA e : e[2] = cv)
  IN  DictGet(d, cv) \o [i \in 1..Len(es) |-> <<es[i][1], es[i][3]>>]

\* self.adjacency_list[current_vertex], the key being present
Neighbors(d, cv) == DictGet(d, cv)

\* mutant: a neighbor is relabelled also when the new distance is equal
RECURSIVE Relax_le(_, _, _, _, _, _)
Relax_le(l, cv, current_distance, vis, u, p) ==
  IF l = << >> THEN [unvisited |-> u, predecessors |-> p, err |-> FALSE]
  ELSE LET neighbor     == Head(l)[1]
           weight       == Head(l)[2]
           new_distance == Plus(current_distance, weight)
       IN  IF neighbor \in DOMAIN vis
             THEN Relax_le(Tail(l), cv, current_distance, vis, u, p)
           ELSE IF neighbor \notin DOMAIN u
             THEN [unvisited |-> u, predecessors |-> p, err |-> TRUE]
           ELSE IF Leq(new_distance, u[neighbor])
             THEN Relax_le(Tail(l), cv, current_distance, vis,
                        MapSet(u, neighbor, new_distance), MapSet(p, neighbor, cv))
           ELSE Relax_le(Tail(l), cv, current_distance, vis, u, p)

\* lines 89-95: the for loop over the edges l of the current vertex cv
RECURSIVE Relax(_, _, _, _, _, _)
Relax(l, cv, current_distance, vis, u, p) ==
  IF l = << >> THEN [unvisited |-> u, predecessors |-> p, err |-> FALSE]
  ELSE LET neighbor     == Head(l)[1]
           weight       == Head(l)[2]
           new_distance == Plus(current_distance, weight)
       IN  IF neighbor \in DOMAIN vis
             THEN Relax(Tail(l), cv, current_distance, vis, u, p)
           ELSE IF neighbor \notin DOMAIN u
             THEN [unvisited |-> u, predecessors |-> p, err |-> TRUE]
           ELSE IF Less(new_distance, u[neighbor])
             THEN Relax(Tail(l), cv, current_distance, vis,
                        MapSet(u, neighbor, new_distance), MapSet(p, neighbor, cv))
           ELSE Relax(Tail(l), cv, current_distance, vis, u, p)

\* one iteration of the while loop (lines 79-103) selecting cv
DijkstraIteration(cv) ==
  /\ pc = "loop"
  /\ cv \in MinKeys(unvisited)
  /\ LET current_distance == unvisited[cv]
         d1 == DefaultGetItem(adjacency_list, cv)
         r  == Relax(Neighbors(d1, cv), cv, current_distance, visited,
                     unvisited, predecessors)
         u1 == MapPop(r.unvisited, cv)
     IN  /\ adjacency_list' = d1
         /\ current_vertex' = cv
         /\ processed' = processed \cup {cv}
         /\ predecessors' = r.predecessors
         /\ IF r.err
              THEN /\ unvisited' = r.unvisited
                   /\ visited' = visited
                   /\ outcome' = "KeyError"
                   /\ pc' = "done"
                   /\ UNCHANGED current
              ELSE /\ unvisited' = u1
                   /\ visited' = MapSet(visited, cv, current_distance)
                   /\ outcome' = outcome
                   /\ IF cv = end \/ DOMAIN u1 = {}
                        THEN pc' = "walk" /\ current' = end
                        ELSE pc' = "loop" /\ UNCHANGED current
  /\ UNCHANGED <<vertices, start, end, path, result, removed>>

\* one iteration of the predecessor walk (lines 108-110)
WalkStep ==
  /\ pc = "walk"
  /\ current \in DOMAIN predecessors
  /\ path' = <<current>> \o path
  /\ current' = predecessors[current]
  /\ UNCHANGED <<graph, pc, start, end, unvisited, visited, processed,
                 predecessors, current_vertex, result, outcome, removed>>

\* visited.get(end, sys.maxsize)
Cost(vis, e) == IF e \in DOMAIN vis THEN vis[e] ELSE maxsize

\* lines 111-114: the walk is over; prepend start to a non-empty path, return
WalkEnd ==
  /\ pc = "walk"
  /\ current \notin DOMAIN predecessors
  /\ path' = IF path # << >> THEN <<start>> \o path ELSE path
  /\ result' = <<path', Cost(visited, end)>>
  /\ outcome' = "returned"
  /\ pc' = "done"
  /\ UNCHANGED <<graph, start, end, unvisited, visited, processed,
                 predecessors, current_vertex, current, removed>>

\* the caller takes the result; the call's locals are gone
Return ==
  /\ pc \in {"done", "matrix"}
  /\ pc' = "idle"
  /\ start' = None /\ end' = None
  /\ unvisited' = << >> /\ visited' = << >> /\ processed' = {} /\ predecessors' = << >>
  /\ current_vertex' = None /\ current' = None /\ path' = << >>
  /\ result' = None
  /\ outcome' = "none"
  /\ UNCHANGED <<graph, removed>>

\* ------------------------------------------------------- specification
\* the driver's dispatch: any method, with any labels and weights;
\* add_edge is offered while fewer than maxe edges are stored
Driver(maxe) ==
  \/ /\ EdgeCount(adjacency_list) < maxe
     /\ \E src \in Labels, dest \in Labels, weight \in Weights :
          AddEdge(src, dest, weight)
  \/ \E vertex \in Labels : AddVertex(vertex)
  \/ \E vertex \in Labels : RemoveVertex(vertex)
  \/ CreateAdjacencyMatrix
  \/ \E s \in Labels, e \in Labels : Dijkstra(s, e)
  \/ \E cv \in Labels : DijkstraIteration(cv)
  \/ WalkStep
  \/ WalkEnd
  \/ Return

Next == Driver(MaxEdges)

Spec == Init /\ [][Next]_vars

\* the steps of a running dijkstra call
Running == (\E cv \in Labels : DijkstraIteration(cv)) \/ WalkStep \/ WalkEnd

\* The program is single-threaded and synchronous: a call that has started
\* runs to completion, so a running call is never left waiting forever.
\* Liveness is checked on the graphs of up to MaxEdges - 1 edges.
FairNext == Driver(MaxEdges - 1)

FairSpec == Init /\ [][FairNext]_vars /\ WF_vars(Running)

\* ========================================================= properties
\* what a reader of the Graph Store sees
EdgeSet ==
  UNION { { <<adjacency_list[i].key, adjacency_list[i].list[j][1],
              adjacency_list[i].list[j][2]>> : j \in DOMAIN adjacency_list[i].list }
          : i \in DOMAIN adjacency_list }

HasEdge(u, v) == \E e \in EdgeSet : e[1] = u /\ e[2] = v

MinOf(S) == CHOOSE x \in S : \A y \in S : Leq(x, y)

\* the cheapest stored weight of a directed edge u -> v
CheapestEdge(u, v) == MinOf({e[3] : e \in {f \in EdgeSet : f[1] = u /\ f[2] = v}})

\* a stored edge joins a and b in one direction or the other
Connected(a, b) == HasEdge(a, b) \/ HasEdge(b, a)

\* the outgoing edge sequence of k, empty for a vertex with none
OutEdges(d, k) == IF k \in DictKeys(d) THEN DictGet(d, k) ELSE << >>

\* p follows stored directed edges
IsWalk(p) == \A i \in 1..(Len(p) - 1) : HasEdge(p[i], p[i + 1])

RECURSIVE WalkWeight(_)
WalkWeight(p) ==
  IF Len(p) < 2 THEN Zero ELSE Plus(CheapestEdge(p[1], p[2]), WalkWeight(Tail(p)))

\* the directed paths from s to e that repeat no vertex; with non-negative
\* weights a cheapest path is among them
SimplePaths(s, e) ==
  { p \in UNION { [1..n -> Labels] : n \in 2..NumLabels } :
      /\ p[1] = s /\ p[Len(p)] = e
      /\ \A i, j \in 1..Len(p) : i # j => p[i] # p[j]
      /\ IsWalk(p) }

MinPathCost(s, e) == MinOf({WalkWeight(p) : p \in SimplePaths(s, e)})

Returned == pc = "done" /\ outcome = "returned"

\* C1: for distinct start and end joined by a directed path, dijkstra
\* returns the minimum total weight over all directed paths, and a path
\* that starts with start, ends with end, follows stored directed edges
\* and whose cheapest edge weights add up to the returned cost.
C1_ShortestPath ==
  (pc = "done" /\ start # end /\ start \in vertices /\ end \in vertices
     /\ SimplePaths(start, end) # {})
  => /\ outcome = "returned"
     /\ result[2] = MinPathCost(start, end)
     /\ Len(result[1]) >= 2
     /\ result[1][1] = start
     /\ result[1][Len(result[1])] = end
     /\ IsWalk(result[1])
     /\ WalkWeight(result[1]) = result[2]

\* C2: dijkstra(v, v) for a vertex v of the vertex set returns the path
\* [v] and cost 0.
C2_SelfPath ==
  (pc = "done" /\ start = end /\ start \in vertices)
  => (outcome = "returned" /\ result = << <<start>>, Zero >>)

\* C3: for distinct start and end of the vertex set with no directed path
\* from start to end, dijkstra returns the empty path and sys.maxsize,
\* also when edges lead from end to start.
C3_Unreachable ==
  (pc = "done" /\ start # end /\ start \in vertices /\ end \in vertices
     /\ SimplePaths(start, end) = {})
  => (outcome = "returned" /\ result = << << >>, maxsize >>)

\* no path start -> end, but an edge end -> start, and the call returned
C3_Witness ==
  /\ Returned /\ start # end /\ start \in vertices /\ end \in vertices
  /\ SimplePaths(start, end) = {}
  /\ HasEdge(end, start)

\* C4: dijkstra with start or end outside the vertex set ends in an
\* explicit unknown-vertex error instead of returning a result.
C4_UnknownVertex ==
  (pc = "done" /\ (start \notin vertices \/ end \notin vertices))
  => outcome = "UnknownVertex"

\* C5: every stored edge has its source and its destination in the vertex
\* set, in every reachable state.
C5_EndpointsInVertices ==
  \A e \in EdgeSet : e[1] \in vertices /\ e[2] \in vertices

\* remove_vertex has just removed a present vertex and edges remain
C5_Witness ==
  /\ pc = "idle" /\ removed # None
  /\ removed \notin vertices
  /\ EdgeSet # {}

\* C6: remove_vertex(v) with v present leaves v out of the vertex set and
\* of the keys, no edge into v, every other vertex in the vertex set, and
\* every other outgoing list equal to the old one without the edges into v.
C6_RemoveVertex ==
  [][ \A v \in Labels :
        (RemoveVertex(v) /\ v \in vertices)
        => /\ vertices' = vertices \ {v}
           /\ v \notin DictKeys(adjacency_list')
           /\ \A e \in EdgeSet' : e[1] # v /\ e[2] # v
           /\ \A k \in Labels \ {v} :
                OutEdges(adjacency_list', k)
                  = SelectSeq(OutEdges(adjacency_list, k), LAMBDA e : e[1] # v)
    ]_vars

\* a present vertex was removed; an edge and another vertex remain
C6_Witness ==
  /\ pc = "idle" /\ removed # None
  /\ removed \notin vertices
  /\ removed \notin DictKeys(adjacency_list)
  /\ \E e \in EdgeSet : e[1] # e[2]
  /\ \E k \in DictKeys(adjacency_list) : DictGet(adjacency_list, k) = << >>

\* the position of v in the ascending order of the vertex set, from 0
Rank(v) == Cardinality({u \in vertices : Ord(u) < Ord(v)})

\* C7: create_adjacency_matrix completes without a lookup failure and
\* returns an N x N matrix indexed by the ascending order of the vertex
\* set, symmetric, with sys.maxsize exactly in the cells of the pairs that
\* no stored edge connects in either direction.
C7_Matrix ==
  (pc = "matrix")
  => /\ outcome = "returned"
     /\ LET M   == result[1]
            idx == result[2]
            N   == Cardinality(vertices)
        IN  /\ DOMAIN M = 0..(N - 1)
            /\ \A i \in 0..(N - 1) : DOMAIN M[i] = 0..(N - 1)
            /\ DOMAIN idx = vertices
            /\ \A v \in vertices : idx[v] = Rank(v)
            /\ \A i, j \in 0..(N - 1) : M[i][j] = M[j][i]
            /\ \A a, b \in vertices :
                 (M[Rank(a)][Rank(b)] = maxsize) <=> ~Connected(a, b)

\* the cheapest stored weight among the edges joining a and b
CheapestConnecting(a, b) ==
  MinOf({e[3] : e \in {f \in EdgeSet : {f[1], f[2]} = {a, b}}})

\* C8 (as claimed): the cell of a connected pair holds the weight of the
\* cheapest stored edge connecting the pair.
C8_Cheapest ==
  (pc = "matrix" /\ outcome = "returned")
  => \A a, b \in vertices :
       Connected(a, b) => result[1][Rank(a)][Rank(b)] = CheapestConnecting(a, b)

\* the places <<i, j>> (key i of the dict, entry j of its list) of the
\* stored edges joining a and b
ConnectingPlaces(a, b) ==
  { p \in UNION { {<<i, j>> : j \in DOMAIN adjacency_list[i].list}
                  : i \in DOMAIN adjacency_list } :
      {adjacency_list[p[1]].key, adjacency_list[p[1]].list[p[2]][1]} = {a, b} }

\* the weight of the edge joining a and b that the dict's iteration
\* (keys in insertion order, each list in append order) meets last
LastConnecting(a, b) ==
  LET S == ConnectingPlaces(a, b)
      p == CHOOSE x \in S : \A y \in S :
             y[1] < x[1] \/ (y[1] = x[1] /\ y[2] <= x[2])
  IN  adjacency_list[p[1]].list[p[2]][2]

\* C8 (amended): the cell of a connected pair holds the weight of the
\* connecting edge that the iteration over adjacency_list meets last.
C8_LastWins ==
  (pc = "matrix" /\ outcome = "returned")
  => \A a, b \in vertices :
       Connected(a, b) => result[1][Rank(a)][Rank(b)] = LastConnecting(a, b)

\* a pair joined by edges of different weights, the last one not the cheapest
C8_Witness ==
  /\ pc = "matrix" /\ outcome = "returned"
  /\ \E a, b \in vertices :
       /\ Connected(a, b)
       /\ Less(CheapestConnecting(a, b), LastConnecting(a, b))
       /\ result[1][Rank(a)][Rank(b)] = LastConnecting(a, b)

\* C9: no step of a dijkstra call changes the vertex set or the outgoing
\* edge sequence of any vertex (the empty sequence for a vertex with none).
C9_NoMutation ==
  [][ (pc \in {"loop", "walk", "done"} \/ pc' \in {"loop", "walk", "done"})
      => /\ vertices' = vertices
         /\ \A k \in Labels :
              OutEdges(adjacency_list', k) = OutEdges(adjacency_list, k)
    ]_vars

\* a finished call on a graph with edges whose start was not a vertex: the
\* lookup of its edge list inserted a key, with no edges
C9_Witness ==
  /\ Returned
  /\ EdgeSet # {}
  /\ start \notin vertices
  /\ start \in DictKeys(adjacency_list)
  /\ \E k \in vertices : k \notin DictKeys(adjacency_list)

\* following predecessor links from v leaves the links within n steps
RECURSIVE WalkLeaves(_, _)
WalkLeaves(v, n) ==
  IF v \notin DOMAIN predecessors THEN TRUE
  ELSE IF n = 0 THEN FALSE
  ELSE WalkLeaves(predecessors[v], n - 1)

\* C10: dijkstra terminates.  Each loop iteration removes exactly one
\* vertex from unvisited, a vertex not finalized before, and leaves the
\* finalized distances alone; the loop ends exactly in the iteration that
\* selects end or empties unvisited; predecessor links have no cycle; and
\* every call that entered the loop returns.
C10_Terminates ==
  /\ [][ pc = "loop"
         => \E v \in DOMAIN unvisited :
              /\ DOMAIN unvisited' = (DOMAIN unvisited) \ {v}
              /\ current_vertex' = v
              /\ v \notin DOMAIN visited
              /\ DOMAIN visited' = (DOMAIN visited) \cup {v}
              /\ \A x \in DOMAIN visited : visited'[x] = visited[x]
              /\ (DOMAIN visited') \cap (DOMAIN unvisited') = {}
              /\ pc' \in {"loop", "walk"}
              /\ (pc' = "walk") <=> (v = end \/ DOMAIN unvisited' = {})
       ]_vars
  /\ [](\A v \in Labels : WalkLeaves(v, NumLabels))
  /\ [](pc \in {"loop", "walk"} => <>(pc = "done" /\ outcome = "returned"))

\* a call returned after three loop iterations, the last one selecting end,
\* and a walk along two predecessor links
C10_Witness ==
  /\ Returned
  /\ current_vertex = end
  /\ Cardinality(DOMAIN visited) = 3
  /\ Len(path) = 3

====
